---------------------------- MODULE Spec2Model ----------------------------
(***************************************************************************)
(* Query routing and order extraction of the bakery agent                  *)
(* (src/src/agent/agent_core.py, llm_handler.py, database/db_manager.py).  *)
(*                                                                         *)
(* Text is modelled at character level: a Python str is a tuple of         *)
(* one-character strings, so that the regular expressions, strip(), lower()*)
(* and the substring tests of the code are computed as the code computes   *)
(* them.                                                                   *)
(***************************************************************************)
EXTENDS Integers, Sequences, FiniteSets, TLC

(***************************************************************************)
(* Bounds of the model.                                                    *)
(***************************************************************************)
\* longest query, in words, that Spec feeds to buscar_respuesta
MaxTokens == 3
\* number of routing calls SpecConc starts, over its two threads
MaxCalls == 2

(***************************************************************************)
(* Characters and strings.                                                 *)
(***************************************************************************)
Digits == {"0", "1", "2", "3", "4", "5", "6", "7", "8", "9"}

\* characters that the regex class \w does not match
NonWordChars == {" ", ".", ",", "-", ":", "?"}

IsWordChar(c) == c \notin NonWordChars

\* str.lower() on the characters that occur in the model
LowerChar(c) ==
    CASE c = "Q" -> "q"
      [] c = "C" -> "c"
      [] c = "P" -> "p"
      [] c = "I" -> "i"
      [] OTHER -> c

Lower(s) == [i \in 1..Len(s) |-> LowerChar(s[i])]

\* Python's `sub in s`
Contains(s, sub) ==
    \E i \in 1..(Len(s) - Len(sub) + 1) : SubSeq(s, i, i + Len(sub) - 1) = sub

\* the regex anchor \b just before position i of s (1 <= i <= Len(s) + 1)
Boundary(s, i) ==
    LET before == i > 1 /\ IsWordChar(s[i - 1])
        after  == i <= Len(s) /\ IsWordChar(s[i])
    IN  before # after

RECURSIVE DigitRun(_, _)
\* length of the longest run of digits of s that starts at position i
DigitRun(s, i) ==
    IF i <= Len(s) /\ s[i] \in Digits THEN 1 + DigitRun(s, i + 1) ELSE 0

\* length of the match of \b(\d+|w1|w2|...)\b at position i of s, 0 if none;
\* `digits` says whether \d+ is one of the alternatives
MatchLen(s, i, words, digits) ==
    LET run  == DigitRun(s, i)
        hits == {w \in words :
                    /\ i + Len(w) - 1 <= Len(s)
                    /\ SubSeq(s, i, i + Len(w) - 1) = w
                    /\ Boundary(s, i + Len(w))}
    IN  IF ~Boundary(s, i) THEN 0
        ELSE IF digits /\ run > 0 /\ Boundary(s, i + run) THEN run
        ELSE IF hits # {} THEN Len(CHOOSE w \in hits : TRUE)
        ELSE 0

\* re.search: the position of the leftmost match, 0 if there is none
Search(s, words, digits) ==
    LET at == {i \in 1..Len(s) : MatchLen(s, i, words, digits) > 0}
    IN  IF at = {} THEN 0 ELSE CHOOSE i \in at : \A j \in at : i <= j

RECURSIVE SubFrom(_, _, _, _)
\* re.sub(pattern, "", s) from position i on
SubFrom(s, i, words, digits) ==
    IF i > Len(s) THEN <<>>
    ELSE LET n == MatchLen(s, i, words, digits)
         IN  IF n > 0 THEN SubFrom(s, i + n, words, digits)
             ELSE <<s[i]>> \o SubFrom(s, i + 1, words, digits)

ReSub(s, words, digits) == SubFrom(s, 1, words, digits)

RECURSIVE LStrip(_, _)
LStrip(s, chars) ==
    IF s # <<>> /\ Head(s) \in chars THEN LStrip(Tail(s), chars) ELSE s

RECURSIVE RStrip(_, _)
RStrip(s, chars) ==
    IF s # <<>> /\ s[Len(s)] \in chars
    THEN RStrip(SubSeq(s, 1, Len(s) - 1), chars) ELSE s

\* str.strip(chars)
Strip(s, chars) == RStrip(LStrip(s, chars), chars)

DigitVal(c) ==
    CASE c = "0" -> 0 [] c = "1" -> 1 [] c = "2" -> 2 [] c = "3" -> 3
      [] c = "4" -> 4 [] c = "5" -> 5 [] c = "6" -> 6 [] c = "7" -> 7
      [] c = "8" -> 8 [] c = "9" -> 9

RECURSIVE ParseInt(_)
\* int(s) of a string of digits
ParseInt(s) ==
    IF s = <<>> THEN 0
    ELSE 10 * ParseInt(SubSeq(s, 1, Len(s) - 1)) + DigitVal(s[Len(s)])

IsDigit(s) == s # <<>> /\ \A i \in 1..Len(s) : s[i] \in Digits

RECURSIVE Join(_)
\* " ".join(words)
Join(ws) ==
    IF ws = <<>> THEN <<>>
    ELSE IF Len(ws) = 1 THEN ws[1]
    ELSE ws[1] \o <<" ">> \o Join(Tail(ws))


(***************************************************************************)
(* Keyword tables of agent_core.py.  The accented letters of the FAQ       *)
(* keywords are single characters.                                         *)
(***************************************************************************)
\* order_keywords = r"\b(quiero|pedir|comprar|dame|necesito)\b"
order_keywords ==
    {<<"q", "u", "i", "e", "r", "o">>,
     <<"p", "e", "d", "i", "r">>,
     <<"c", "o", "m", "p", "r", "a", "r">>,
     <<"d", "a", "m", "e">>,
     <<"n", "e", "c", "e", "s", "i", "t", "o">>}

\* the words of r"\b(\d+|un|una|dos|tres|cuatro|cinco|media|mitad)\b"
quantity_words ==
    {<<"u", "n">>,
     <<"u", "n", "a">>,
     <<"d", "o", "s">>,
     <<"t", "r", "e", "s">>,
     <<"c", "u", "a", "t", "r", "o">>,
     <<"c", "i", "n", "c", "o">>,
     <<"m", "e", "d", "i", "a">>,
     <<"m", "i", "t", "a", "d">>}

\* r"\b(de|el|la|los|las|un|una|y|por|para|a)\b"
stopwords ==
    {<<"d", "e">>,
     <<"e", "l">>,
     <<"l", "a">>,
     <<"l", "o", "s">>,
     <<"l", "a", "s">>,
     <<"u", "n">>,
     <<"u", "n", "a">>,
     <<"y">>,
     <<"p", "o", "r">>,
     <<"p", "a", "r", "a">>,
     <<"a">>}

\* num_map = {"un": 1, "una": 1, "dos": 2, "tres": 3, "cuatro": 4, "cinco": 5}
num_map_keys ==
    {<<"u", "n">>,
     <<"u", "n", "a">>,
     <<"d", "o", "s">>,
     <<"t", "r", "e", "s">>,
     <<"c", "u", "a", "t", "r", "o">>,
     <<"c", "i", "n", "c", "o">>}

num_map(w) ==
    CASE w = <<"u", "n">> -> 1
      [] w = <<"u", "n", "a">> -> 1
      [] w = <<"d", "o", "s">> -> 2
      [] w = <<"t", "r", "e", "s">> -> 3
      [] w = <<"c", "u", "a", "t", "r", "o">> -> 4
      [] w = <<"c", "i", "n", "c", "o">> -> 5

product_keywords ==
    {<<"i", "n", "t", "e", "g", "r", "a", "l">>,
     <<"c", "r", "o", "i", "s", "s", "a", "n", "t">>,
     <<"g", "a", "l", "l", "e", "t", "a", "s">>,
     <<"c", "h", "o", "c", "o", "l", "a", "t", "e">>,
     <<"t", "o", "r", "t", "a">>,
     <<"p", "a", "n">>}

faq_keywords ==
    {<<"h", "o", "r", "a", "r", "i", "o">>,
     <<"g", "l", "u", "t", "e", "n">>,
     <<"d", "o", "m", "i", "c", "i", "l", "i", "o">>,
     <<"p", "a", "g", "o">>,
     <<"p", "e", "r", "s", "o", "n", "a", "l", "i", "z", "a", "d", "o">>,
     <<"c", "a", "f", "e_acute">>,
     <<"f", "r", "e", "s", "c", "o">>,
     <<"v", "e", "g", "a", "n", "o">>,
     <<"r", "e", "s", "e", "r", "v", "a">>,
     <<"w", "i", "-", "f", "i">>,
     <<"b", "e", "b", "i", "d", "a">>,
     <<"d", "i", "a", "b", "e_acute", "t", "i", "c", "o">>,
     <<"u", "b", "i", "c", "a", "c", "i", "o_acute", "n">>}

(***************************************************************************)
(* Python values.  None is a record of its own kind, so that it compares   *)
(* with every other value of the model.                                    *)
(***************************************************************************)
None == [type |-> "NoneType"]

\* a str value
Str(text) == [type |-> "str", text |-> text]

\* bool(v) for the values buscar_respuesta can be called with
Truthy(v) ==
    CASE v.type = "NoneType" -> FALSE
      [] v.type = "str" -> v.text # <<>>
      [] v.type = "int" -> v.value # 0

(***************************************************************************)
(* extract_order_info(consulta): (product_name, quantity), with None for   *)
(* an absent component.                                                    *)
(***************************************************************************)
\* line 54 matching the keyword anywhere, without the \b of line 53
HasOrderKeyword_Substring(text) ==
    \E keyword \in order_keywords : Contains(Lower(text), keyword)

\* re.search(order_keywords, consulta.lower())
HasOrderKeyword(text) == Search(Lower(text), order_keywords, FALSE) # 0

\* lines 59-70: the quantity of the first quantity token, 1 by default
ExtractQuantity(text) ==
    LET low == Lower(text)
        i   == Search(low, quantity_words, TRUE)
        num_str == SubSeq(low, i, i + MatchLen(low, i, quantity_words, TRUE) - 1)
    IN  IF i = 0 THEN 1
        ELSE IF num_str \in num_map_keys THEN num_map(num_str)
        ELSE IF IsDigit(num_str) THEN ParseInt(num_str)
        ELSE 1

\* lines 73-77: the text left once keywords, quantity tokens and stopwords
\* are removed and " .," is stripped from both ends
ExtractPhrase(text) ==
    LET t1 == ReSub(Lower(text), order_keywords, FALSE)
        t2 == ReSub(t1, quantity_words, TRUE)
        t3 == ReSub(t2, stopwords, FALSE)
    IN  Strip(t3, {" ", ".", ","})

extract_order_info(text) ==
    IF ~HasOrderKeyword(text)
    THEN [product_name |-> None, quantity |-> None]
    ELSE LET phrase == ExtractPhrase(text)
         IN  [product_name |-> IF phrase = <<>> \/ Len(phrase) < 3
                               THEN None ELSE Str(phrase),
              quantity |-> [type |-> "int", value |-> ExtractQuantity(text)]]

(***************************************************************************)
(* The catalog (data/processed/catalog.json) and validate_product.         *)
(***************************************************************************)
Catalog ==
    << [id |-> "P3", nombre |-> <<"C", "r", "o", "i", "s", "s", "a", "n", "t">>, precio |-> 3000],
       [id |-> "P1", nombre |-> <<"P", "a", "n", " ", "I", "n", "t", "e", "g", "r", "a", "l">>, precio |-> 5000] >>

\* lines 104-108: the first entry whose singularised name contains the
\* phrase or is contained in it; 0 if there is none
CatalogScan(productos, product_name) ==
    LET hit(k) == LET catalog_name == RStrip(Lower(productos[k].nombre), {"s"})
                  IN  \/ Contains(catalog_name, Lower(product_name))
                      \/ Contains(Lower(product_name), catalog_name)
        at == {k \in 1..Len(productos) : hit(k)}
    IN  IF at = {} THEN 0 ELSE CHOOSE k \in at : \A j \in at : k <= j

\* lines 111-116: the first entry whose name contains the product name of
\* the retrieved document; 0 if there is none
SemanticScan(productos, results) ==
    LET at == {k \in 1..Len(productos) :
                  Contains(Lower(productos[k].nombre),
                           Lower(results[1].page.product_info))}
    IN  IF results = <<>> \/ ~results[1].page.has_producto \/ at = {} THEN 0
        ELSE CHOOSE k \in at : \A j \in at : k <= j


(***************************************************************************)
(* The semantic index: similarity_search(query, k=1, score_threshold).     *)
(* A document is its page_content, described by the parts the code looks   *)
(* at: whether it holds the marker "Producto:" and the name that follows   *)
(* it, and whether it holds the marker "R:" and the answer that follows    *)
(* it.  Scores are in hundredths.                                          *)
(***************************************************************************)
DocCroissant ==
    [text |-> "Producto: Croissant", has_producto |-> TRUE,
     product_info |-> <<"C", "r", "o", "i", "s", "s", "a", "n", "t">>, has_R |-> FALSE, answer |-> ""]

DocBrownie ==
    [text |-> "Producto: Brownie", has_producto |-> TRUE,
     product_info |-> <<"B", "r", "o", "w", "n", "i", "e">>, has_R |-> FALSE, answer |-> ""]

DocFaq ==
    [text |-> "P: horario? R: 8am-8pm", has_producto |-> FALSE,
     product_info |-> <<>>, has_R |-> TRUE, answer |-> "8am-8pm"]

Docs == {DocCroissant, DocBrownie, DocFaq}

Scores == {65, 75, 82, 90}

\* what the index holds for one query: it fails, or it has a best document
\* with its score, or it has none
IndexAnswers ==
    {[raises |-> TRUE, top |-> <<>>], [raises |-> FALSE, top |-> <<>>]}
    \cup {[raises |-> FALSE, top |-> <<[page |-> d, score |-> sc]>>] :
             d \in Docs, sc \in Scores}

\* score_threshold of validate_product, of the product tier, of the FAQ tier
ValidateThreshold == 70
ProductThreshold == 80
FaqThreshold == 85

\* the hits the index returns: those of score at least score_threshold
similarity_search(answer, score_threshold) ==
    SelectSeq(answer.top, LAMBDA h : h.score >= score_threshold)

(***************************************************************************)
(* Responses.  A response is a record of the parts the f-string is built   *)
(* from.                                                                   *)
(***************************************************************************)
\* line 170
Confirmation(quantity, producto, order_id) ==
    [kind |-> "Pedido registrado", quantity |-> quantity,
     nombre |-> producto.nombre, total |-> producto.precio * quantity,
     order_id |-> order_id]

\* line 178
Apology(product_name) == [kind |-> "No encontramos", product_name |-> product_name]

\* line 192: page_content.strip()
PageContent(doc) == [kind |-> "page_content", text |-> doc.text]

\* line 209: page_content.split("R:")[1].strip()
FaqAnswer(doc) == [kind |-> "faq_answer", text |-> doc.answer]

\* the text the model generates
LlmText == [kind |-> "llm", text |-> "generated"]

\* llm_handler.py line 55
LlmError == [kind |-> "Error al consultar el LLM"]

\* line 243
Degraded == [kind |-> "No se pudo procesar la consulta"]

(***************************************************************************)
(* Inputs.                                                                 *)
(***************************************************************************)
Vocabulary ==
    {<<"Q", "u", "i", "e", "r", "o">>,
     <<"0">>,
     <<"2">>,
     <<"u", "n", "a">>,
     <<"d", "e">>,
     <<"c", "r", "o", "i", "s", "s", "a", "n", "t", "s">>,
     <<"h", "o", "r", "a", "r", "i", "o">>}

\* the sequences of at most n words
TokenSeqs(n) == UNION {[1..k -> Vocabulary] : k \in 0..n}

\* queries that hold an order keyword inside a longer word only, with and
\* without a product keyword
EmbeddedKeywordQueries ==
    {Str(Join(<<<<"r", "e", "q", "u", "i", "e", "r", "o">>, <<"2">>,
                <<"c", "r", "o", "i", "s", "s", "a", "n", "t", "s">>>>)),
     Str(<<"d", "a", "m", "e", "l", "o">>)}

\* what Spec calls buscar_respuesta with: every query of at most MaxTokens
\* words, the queries above, None, and a value that is not a string
Queries ==
    {Str(Join(ts)) : ts \in TokenSeqs(MaxTokens)}
    \cup EmbeddedKeywordQueries
    \cup {None, [type |-> "int", value |-> 5]}

Session1 == Str(<<"s", "1">>)
Session2 == Str(<<"s", "2">>)

SessionIds == {None, Str(<<>>), Session1, Session2}

\* what the concurrent calls of SpecConc are made with
ConcQueries ==
    {Str(Join(<<<<"Q", "u", "i", "e", "r", "o">>, <<"2">>, <<"c", "r", "o", "i", "s", "s", "a", "n", "t", "s">>>>)),
     Str(<<"h", "o", "r", "a", "r", "i", "o">>)}

ConcSessionIds == {Session1, Session2}

Threads == {1, 2}

(***************************************************************************)
(* The pure functions of the code, tabulated over the texts of the model:  *)
(* the actions look the results up instead of computing them again in      *)
(* every state.                                                            *)
(***************************************************************************)
Texts == {q.text : q \in {r \in Queries \cup ConcQueries : r.type = "str"}}

\* extract_order_info(consulta), line 162
OrderInfoOf == [text \in Texts |-> extract_order_info(text)]

\* the product phrases extract_order_info can yield
Phrases == {ExtractPhrase(text) : text \in Texts}

\* the catalog scan of validate_product, lines 104-108
CatalogScanOf == [product_name \in Phrases |-> CatalogScan(Catalog, product_name)]

\* any(keyword in consulta.lower() for keyword in product_keywords), line 188
HasProductKeyword ==
    [text \in Texts |->
        \E keyword \in product_keywords : Contains(Lower(text), keyword)]

\* any(keyword in consulta.lower() for keyword in faq_keywords), line 205
HasFaqKeyword ==
    [text \in Texts |->
        \E keyword \in faq_keywords : Contains(Lower(text), keyword)]

\* validate_product, given whether catalog.json exists and what the index
\* answers.  The outcome says whether the call raised (product_name.lower()
\* of a value that is no string, line 106, or the similarity_search of line
\* 110), whether it reached the similarity_search, and the catalog entry it
\* returned: its index in the catalog, 0 for None
validate_product(product_name, catalog_exists, answer) ==
    LET is_str == product_name.type = "str"
        found == IF is_str THEN CatalogScanOf[product_name.text] ELSE 0
        searched == catalog_exists /\ is_str /\ found = 0
        raised == catalog_exists /\ (~is_str \/ (searched /\ answer.raises))
    IN  [raised |-> raised,
         searched |-> searched,
         producto |-> IF ~catalog_exists \/ raised THEN 0
                      ELSE IF found # 0 THEN found
                      ELSE SemanticScan(Catalog,
                                        similarity_search(answer, ValidateThreshold))]

(***************************************************************************)
(* State.                                                                  *)
(***************************************************************************)
VARIABLES
    api_key,          \* whether OPENAI_API_KEY is set in the environment
    chat_histories,   \* the dict: session id -> ChatMessageHistory object
    objects,          \* the ChatMessageHistory objects ever created
    orders_db,        \* orders.db: rows, sqlite_sequence, writer holding the lock
    interactions_db,  \* interactions.db, likewise
    frame,            \* per thread: the locals of its buscar_respuesta call
    ncalls            \* calls started so far

vars == <<api_key, chat_histories, objects, orders_db, interactions_db, frame, ncalls>>

EmptyDb == [rows |-> <<>>, seq |-> 0, writer |-> 0]

\* the locals of a call.  call, interaction_ids, tier, visited, external,
\* hit_score and cause are bookkeeping: the call's number, the ids its
\* add_interaction calls returned, the tier that produced the response, the
\* tiers evaluated, the external calls made, the score of the hit used and
\* why None was returned.
IdleFrame ==
    [pc |-> "idle", call |-> 0, consulta |-> None, session_id |-> None,
     llm_handler |-> FALSE, product_name |-> None, quantity |-> None,
     producto |-> 0, order_id |-> 0, response |-> None, result |-> None,
     plan |-> <<>>, history |-> 0, pending |-> 0, interaction_ids |-> <<>>,
     tier |-> "", visited |-> <<>>, external |-> <<>>, hit_score |-> 0,
     cause |-> "", context |-> None]

Init ==
    /\ api_key \in BOOLEAN
    /\ chat_histories = << >>
    /\ objects = <<>>
    /\ orders_db = EmptyDb
    /\ interactions_db = EmptyDb
    /\ frame = [t \in Threads |-> IdleFrame]
    /\ ncalls = 0

(***************************************************************************)
(* Steps of a call that follow the routing decision.  A tier that answers  *)
(* leaves the statements it still has to run, in order, in `plan`.         *)
(***************************************************************************)
Op(name) == [op |-> name, in_try |-> FALSE]

\* a statement of query_llm's try block (llm_handler.py lines 45-53)
TryOp(name) == [op |-> name, in_try |-> TRUE]

\* get_session_history(session_id).add_user_message(consulta) and
\* get_session_history(session_id).add_ai_message(response), if session_id
SessionOps(session_id) ==
    IF Truthy(session_id)
    THEN <<Op("get_session_history"), Op("add_user_message"),
           Op("get_session_history"), Op("add_ai_message")>>
    ELSE <<>>

\* lines 172-176, 180-184, 194-198, 211-215
RecordAndReturn(session_id) ==
    <<Op("add_interaction")>> \o SessionOps(session_id) \o <<Op("return")>>

\* lines 169-176
OrderFoundPlan(session_id) == <<Op("add_order")>> \o RecordAndReturn(session_id)

\* lines 178-184 without the add_interaction of line 180
OrderNotFoundPlan_Unrecorded(session_id) ==
    SessionOps(session_id) \o <<Op("return")>>

\* lines 178-184
OrderNotFoundPlan(session_id) == RecordAndReturn(session_id)

\* lines 220-235
SessionGenerationPlan ==
    <<Op("get_session_history"), Op("invoke"), Op("add_user_message"),
      Op("add_ai_message"), Op("add_interaction"), Op("return")>>

\* lines 238-241, with query_llm (llm_handler.py lines 45-53) inlined
PlainGenerationPlan ==
    <<TryOp("invoke"), TryOp("add_interaction"), Op("add_interaction"), Op("return")>>

\* lines 243-246
DegradedPlan == <<Op("add_interaction"), Op("return")>>

RECURSIVE DropTry(_)
\* the statements left once the rest of the try block is skipped
DropTry(plan) ==
    IF plan # <<>> /\ Head(plan).in_try THEN DropTry(Tail(plan)) ELSE plan

\* llm_handler.py lines 54-57: the except block, then the caller's statements
ExceptPlan(plan) == <<Op("add_interaction")>> \o DropTry(plan)

\* line 131 testing the type alone, not the emptiness
IsValidQuery_TypeOnly(consulta) == consulta.type = "str"

\* line 131: `not consulta or not isinstance(consulta, str)` is false
IsValidQuery(consulta) == Truthy(consulta) /\ consulta.type = "str"

\* line 163 testing the quantity alone
IsOrderAttempt_QuantityOnly(product_name, quantity) == Truthy(quantity)

\* line 163 testing the product phrase alone
IsOrderAttempt_ProductOnly(product_name, quantity) == Truthy(product_name)

\* line 163: `if product_name and quantity`
IsOrderAttempt(product_name, quantity) == Truthy(product_name) /\ Truthy(quantity)

\* line 188
IsProductQuery(consulta, product_name) ==
    /\ HasProductKeyword[consulta.text]
    /\ ~Truthy(product_name)

\* line 205
IsFaqQuery(consulta) == HasFaqKeyword[consulta.text]

\* line 191
IsProductHit(results) == results # <<>> /\ results[1].page.has_producto

\* line 208
IsFaqHit(results) == results # <<>> /\ results[1].page.has_R

\* INTEGER PRIMARY KEY AUTOINCREMENT: the id the next insert gets
AllocRowId(db) == db.seq + 1

\* the row add_order inserts when status is left to its default, line 47
OrderRow_DefaultStatus(order_id, f) ==
    [order_id |-> order_id, product_id |-> Catalog[f.producto].id,
     quantity |-> f.quantity.value, status |-> "pendiente", call |-> f.call]

\* the row add_order inserts (the timestamp is left out)
OrderRow(order_id, f) ==
    [order_id |-> order_id, product_id |-> Catalog[f.producto].id,
     quantity |-> f.quantity.value, status |-> "procesado", call |-> f.call]

\* the row add_interaction inserts (the timestamp is left out)
InteractionRow(interaction_id, f) ==
    [interaction_id |-> interaction_id, query |-> f.consulta,
     response |-> f.response, call |-> f.call]

Running(t) == frame[t].pc = "run" /\ frame[t].plan # <<>>

NextOp(t) == Head(frame[t].plan).op

\* the call ends with an exception leaving buscar_respuesta
Raise(f) == [f EXCEPT !.pc = "raised", !.plan = <<>>, !.history = 0]

\* `return None` of lines 133, 149, 159
ReturnNone(f, why) == [f EXCEPT !.pc = "returned", !.result = None, !.cause = why]

(***************************************************************************)
(* buscar_respuesta.                                                       *)
(***************************************************************************)
\* a thread enters buscar_respuesta(consulta, session_id): lines 131-133
Call(t, consulta, session_id) ==
    /\ frame[t].pc \in {"idle", "returned", "raised"}
    /\ ncalls' = ncalls + 1
    /\ LET f == [IdleFrame EXCEPT !.call = ncalls + 1, !.consulta = consulta,
                                  !.session_id = session_id]
       IN  frame' = [frame EXCEPT ![t] =
                IF IsValidQuery(consulta) THEN [f EXCEPT !.pc = "setup"]
                ELSE ReturnNone(f, "invalid")]
    /\ UNCHANGED <<api_key, chat_histories, objects, orders_db, interactions_db>>

\* lines 137-159: DatabaseManager(), LLMHandler(), the key, the index
Setup(t) ==
    /\ frame[t].pc = "setup"
    /\ \E loaded \in BOOLEAN :
         frame' = [frame EXCEPT ![t] =
            LET f == [@ EXCEPT !.llm_handler = api_key]
            IN  IF ~api_key THEN ReturnNone(f, "api_key")
                ELSE IF ~loaded
                     THEN ReturnNone([f EXCEPT !.external = Append(@, "load_local")],
                                     "load_local")
                ELSE [f EXCEPT !.pc = "order_tier",
                               !.external = Append(@, "load_local")]]
    /\ UNCHANGED <<api_key, chat_histories, objects, orders_db, interactions_db, ncalls>>

\* lines 162-184: the order tier
OrderTier(t) ==
    /\ frame[t].pc = "order_tier"
    /\ LET info == OrderInfoOf[frame[t].consulta.text]
           f == [frame[t] EXCEPT !.product_name = info.product_name,
                                 !.quantity = info.quantity,
                                 !.visited = Append(@, "order")]
           g == [f EXCEPT !.external = Append(@, "similarity_search")]
       IN  IF ~IsOrderAttempt(info.product_name, info.quantity)
           THEN frame' = [frame EXCEPT ![t] = [f EXCEPT !.pc = "product_tier"]]
           ELSE \E catalog_exists \in BOOLEAN, answer \in IndexAnswers :
                  LET outcome == validate_product(info.product_name,
                                                  catalog_exists, answer)
                      results == similarity_search(answer, ValidateThreshold)
                      h == IF outcome.searched THEN g ELSE f
                  IN  frame' = [frame EXCEPT ![t] =
                        IF outcome.raised THEN Raise(h)
                        ELSE IF outcome.producto # 0
                        THEN [h EXCEPT !.pc = "run", !.tier = "order",
                                       !.producto = outcome.producto,
                                       !.hit_score = IF outcome.searched
                                                     THEN results[1].score ELSE 0,
                                       !.plan = OrderFoundPlan(f.session_id)]
                        ELSE [h EXCEPT !.pc = "run", !.tier = "order_not_found",
                                       !.response = Apology(info.product_name),
                                       !.plan = OrderNotFoundPlan(f.session_id)]]
    /\ UNCHANGED <<api_key, chat_histories, objects, orders_db, interactions_db, ncalls>>

\* line 190 passing the score_threshold of line 110
ProductSearch_Lenient(answer) == similarity_search(answer, ValidateThreshold)

\* line 190: similarity_search(consulta, k=1, score_threshold=0.8)
ProductSearch(answer) == similarity_search(answer, ProductThreshold)

\* lines 186-198: the product-keyword tier
ProductTier(t) ==
    /\ frame[t].pc = "product_tier"
    /\ LET f == [frame[t] EXCEPT !.visited = Append(@, "product")]
           g == [f EXCEPT !.external = Append(@, "similarity_search")]
       IN  IF ~IsProductQuery(f.consulta, f.product_name)
           THEN frame' = [frame EXCEPT ![t] = [f EXCEPT !.pc = "faq_tier"]]
           ELSE \E answer \in IndexAnswers :
                  LET results == ProductSearch(answer)
                  IN  frame' = [frame EXCEPT ![t] =
                        IF answer.raises THEN Raise(g)
                        ELSE IF IsProductHit(results)
                        THEN [g EXCEPT !.pc = "run", !.tier = "product",
                                       !.response = PageContent(results[1].page),
                                       !.hit_score = results[1].score,
                                       !.plan = RecordAndReturn(f.session_id)]
                        ELSE [g EXCEPT !.pc = "faq_tier"]]
    /\ UNCHANGED <<api_key, chat_histories, objects, orders_db, interactions_db, ncalls>>

\* lines 200-215: the FAQ tier
FaqTier(t) ==
    /\ frame[t].pc = "faq_tier"
    /\ LET f == [frame[t] EXCEPT !.visited = Append(@, "faq")]
           g == [f EXCEPT !.external = Append(@, "similarity_search")]
       IN  IF ~IsFaqQuery(f.consulta)
           THEN frame' = [frame EXCEPT ![t] = [f EXCEPT !.pc = "generation"]]
           ELSE \E answer \in IndexAnswers :
                  LET results == similarity_search(answer, FaqThreshold)
                  IN  frame' = [frame EXCEPT ![t] =
                        IF answer.raises THEN Raise(g)
                        ELSE IF IsFaqHit(results)
                        THEN [g EXCEPT !.pc = "run", !.tier = "faq",
                                       !.response = FaqAnswer(results[1].page),
                                       !.hit_score = results[1].score,
                                       !.plan = RecordAndReturn(f.session_id)]
                        ELSE [g EXCEPT !.pc = "generation"]]
    /\ UNCHANGED <<api_key, chat_histories, objects, orders_db, interactions_db, ncalls>>

\* lines 217-246: the generative fallback chooses its branch
Generation(t) ==
    /\ frame[t].pc = "generation"
    /\ frame' = [frame EXCEPT ![t] =
         LET f == [@ EXCEPT !.pc = "run", !.visited = Append(@, "generation")]
         IN  IF f.llm_handler /\ Truthy(f.session_id)
             THEN [f EXCEPT !.tier = "generation_session", !.plan = SessionGenerationPlan]
             ELSE IF f.llm_handler
             THEN [f EXCEPT !.tier = "generation_plain", !.plan = PlainGenerationPlan]
             ELSE [f EXCEPT !.tier = "degraded", !.response = Degraded,
                            !.plan = DegradedPlan]]
    /\ UNCHANGED <<api_key, chat_histories, objects, orders_db, interactions_db, ncalls>>


(***************************************************************************)
(* The statements of a plan.                                               *)
(***************************************************************************)
\* an INSERT that never waits for the write lock
WriteLockFree_Always(db) == TRUE

\* the write lock of a database file is free for cursor.execute(INSERT)
WriteLockFree(db) == db.writer = 0

\* db_manager.py lines 59-65 and 82-88: connect and execute the INSERT,
\* which takes the write lock and allocates the row id
DbExecute(t) ==
    /\ Running(t)
    /\ NextOp(t) \in {"add_order", "add_interaction"}
    /\ frame[t].pending = 0
    /\ IF NextOp(t) = "add_order"
       THEN /\ WriteLockFree(orders_db)
            /\ orders_db' = [orders_db EXCEPT !.writer = t]
            /\ frame' = [frame EXCEPT ![t].pending = AllocRowId(orders_db)]
            /\ UNCHANGED interactions_db
       ELSE /\ WriteLockFree(interactions_db)
            /\ interactions_db' = [interactions_db EXCEPT !.writer = t]
            /\ frame' = [frame EXCEPT ![t].pending = AllocRowId(interactions_db)]
            /\ UNCHANGED orders_db
    /\ UNCHANGED <<api_key, chat_histories, objects, ncalls>>

\* db_manager.py lines 66-69 and 89-92: commit and return lastrowid; for
\* add_order, line 170 of agent_core.py then builds the confirmation
DbCommit(t) ==
    /\ Running(t)
    /\ NextOp(t) \in {"add_order", "add_interaction"}
    /\ frame[t].pending # 0
    /\ LET f == frame[t]
           id == f.pending
       IN  IF NextOp(t) = "add_order"
           THEN /\ orders_db' = [rows |-> Append(orders_db.rows, OrderRow(id, f)),
                                 seq |-> id, writer |-> 0]
                /\ frame' = [frame EXCEPT ![t] =
                      [f EXCEPT !.pending = 0, !.order_id = id,
                                !.response = Confirmation(f.quantity.value,
                                                          Catalog[f.producto], id),
                                !.plan = Tail(@)]]
                /\ UNCHANGED interactions_db
           ELSE /\ interactions_db' =
                      [rows |-> Append(interactions_db.rows, InteractionRow(id, f)),
                       seq |-> id, writer |-> 0]
                /\ frame' = [frame EXCEPT ![t] =
                      [f EXCEPT !.pending = 0,
                                !.interaction_ids = Append(@, id),
                                !.plan = Tail(@)]]
                /\ UNCHANGED orders_db
    /\ UNCHANGED <<api_key, chat_histories, objects, ncalls>>

\* the INSERT raises (the database is locked or cannot be written): nothing
\* is inserted; inside query_llm's try the except block takes over,
\* elsewhere the exception leaves buscar_respuesta
DbError(t) ==
    /\ Running(t)
    /\ NextOp(t) \in {"add_order", "add_interaction"}
    /\ frame[t].pending = 0
    /\ frame' = [frame EXCEPT ![t] =
          IF Head(@.plan).in_try
          THEN [@ EXCEPT !.response = LlmError, !.plan = ExceptPlan(@)]
          ELSE Raise(@)]
    /\ UNCHANGED <<api_key, chat_histories, objects, orders_db, interactions_db, ncalls>>

\* line 225: the slice [-1000:]
MaxChars == 1000

\* s[-n:], the last n characters of s, all of s when it is shorter
Suffix(s, n) == SubSeq(s, IF Len(s) > n THEN Len(s) - n + 1 ELSE 1, Len(s))

\* "\n".join(lines)
RECURSIVE JoinLines(_)
JoinLines(lines) ==
    IF lines = <<>> THEN <<>>
    ELSE IF Len(lines) = 1 THEN lines[1]
    ELSE lines[1] \o <<"\n">> \o JoinLines(Tail(lines))

\* the characters of m.content in an f-string: those of a query, and one
\* element standing for the text of a response
ContentChars(content) ==
    IF "type" \in DOMAIN content THEN content.text ELSE <<content>>

\* lines 224-225: one "User: " line for every message of the history, then
\* one "AI: " line for every message of type "ai", joined and cut to the
\* last 1000 characters
Context(messages) ==
    LET ai == SelectSeq(messages, LAMBDA m : m.type = "ai")
        user_lines == [i \in 1..Len(messages) |->
                          <<"U", "s", "e", "r", ":", " ">>
                             \o ContentChars(messages[i].content)]
        ai_lines == [i \in 1..Len(ai) |->
                          <<"A", "I", ":", " ">> \o ContentChars(ai[i].content)]
    IN  Suffix(JoinLines(user_lines \o ai_lines), MaxChars)

\* what chain.invoke reads of the history object it holds: its messages at
\* that moment, and the context rendered from them
ChainInput(messages) == [messages |-> messages, text |-> Context(messages)]

\* chain.invoke (line 230) or self.llm.invoke (llm_handler.py lines 46-50):
\* the model answers or the call raises; the chain of line 223 first renders
\* its context from the history
Invoke(t) ==
    /\ Running(t)
    /\ NextOp(t) = "invoke"
    /\ \E ok \in BOOLEAN :
         LET base == frame[t]
             f == [base EXCEPT !.external = Append(@, "invoke"),
                               !.context = IF base.tier = "generation_session"
                                           THEN ChainInput(objects[base.history])
                                           ELSE None]
         IN  frame' = [frame EXCEPT ![t] =
                IF ok THEN [f EXCEPT !.response = LlmText, !.plan = Tail(@)]
                ELSE IF Head(f.plan).in_try
                THEN [f EXCEPT !.response = LlmError, !.plan = ExceptPlan(@)]
                ELSE Raise(f)]
    /\ UNCHANGED <<api_key, chat_histories, objects, orders_db, interactions_db, ncalls>>

\* get_session_history, line 40: `if session_id not in chat_histories`
GshCheck(t) ==
    /\ Running(t)
    /\ NextOp(t) = "get_session_history"
    /\ frame' = [frame EXCEPT ![t].plan =
          IF frame[t].session_id \notin DOMAIN chat_histories
          THEN <<Op("gsh_create"), Op("gsh_return")>> \o Tail(@)
          ELSE <<Op("gsh_return")>> \o Tail(@)]
    /\ UNCHANGED <<api_key, chat_histories, objects, orders_db, interactions_db, ncalls>>

\* get_session_history, line 41: chat_histories[session_id] = ChatMessageHistory()
GshCreate(t) ==
    /\ Running(t)
    /\ NextOp(t) = "gsh_create"
    /\ objects' = Append(objects, <<>>)
    /\ chat_histories' =
          [k \in DOMAIN chat_histories \cup {frame[t].session_id} |->
              IF k = frame[t].session_id THEN Len(objects) + 1 ELSE chat_histories[k]]
    /\ frame' = [frame EXCEPT ![t].plan = Tail(@)]
    /\ UNCHANGED <<api_key, orders_db, interactions_db, ncalls>>

\* get_session_history, line 42: return chat_histories[session_id]
GshReturn(t) ==
    /\ Running(t)
    /\ NextOp(t) = "gsh_return"
    /\ frame' = [frame EXCEPT ![t] =
          [@ EXCEPT !.history = chat_histories[frame[t].session_id],
                    !.plan = Tail(@)]]
    /\ UNCHANGED <<api_key, chat_histories, objects, orders_db, interactions_db, ncalls>>

\* the message add_user_message / add_ai_message appends
Message(op, f) ==
    IF op = "add_user_message"
    THEN [type |-> "human", content |-> f.consulta, call |-> f.call]
    ELSE [type |-> "ai", content |-> f.response, call |-> f.call]

\* add_user_message(consulta), add_ai_message(response) on the history held
AddMessage(t) ==
    /\ Running(t)
    /\ NextOp(t) \in {"add_user_message", "add_ai_message"}
    /\ objects' = [objects EXCEPT ![frame[t].history] =
                      Append(@, Message(NextOp(t), frame[t]))]
    /\ frame' = [frame EXCEPT ![t].plan = Tail(@)]
    /\ UNCHANGED <<api_key, chat_histories, orders_db, interactions_db, ncalls>>

\* `return response`
Return(t) ==
    /\ Running(t)
    /\ NextOp(t) = "return"
    /\ frame' = [frame EXCEPT ![t] =
          [@ EXCEPT !.pc = "returned", !.result = frame[t].response,
                    !.plan = <<>>, !.history = 0]]
    /\ UNCHANGED <<api_key, chat_histories, objects, orders_db, interactions_db, ncalls>>

\* a step of the call a thread is in
Step(t) ==
    \/ Setup(t)
    \/ OrderTier(t)
    \/ ProductTier(t)
    \/ FaqTier(t)
    \/ Generation(t)
    \/ DbExecute(t)
    \/ DbCommit(t)
    \/ DbError(t)
    \/ Invoke(t)
    \/ GshCheck(t)
    \/ GshCreate(t)
    \/ GshReturn(t)
    \/ AddMessage(t)
    \/ Return(t)

(***************************************************************************)
(* Spec: one routing call, over every query of at most MaxTokens words.    *)
(***************************************************************************)
Next ==
    \/ /\ ncalls = 0
       /\ \E consulta \in Queries, session_id \in SessionIds :
             Call(1, consulta, session_id)
    \/ Step(1)

Spec == Init /\ [][Next]_vars

(***************************************************************************)
(* SpecConc: MaxCalls routing calls made by two threads of the server.     *)
(***************************************************************************)
NextConc ==
    \E t \in Threads :
        \/ /\ ncalls < MaxCalls
           /\ \E consulta \in ConcQueries, session_id \in ConcSessionIds :
                 Call(t, consulta, session_id)
        \/ Step(t)

SpecConc == Init /\ [][NextConc]_vars


(***************************************************************************)
(* Properties.                                                             *)
(***************************************************************************)
\* the rows a call has committed to interactions.db and to orders.db
InteractionsOf(call) ==
    {i \in 1..Len(interactions_db.rows) : interactions_db.rows[i].call = call}

OrdersOf(call) ==
    {i \in 1..Len(orders_db.rows) : orders_db.rows[i].call = call}

\* the call of thread t returned a response
Responded(t) == frame[t].pc = "returned" /\ frame[t].result # None

\* C1: every call of buscar_respuesta that returns a response has added
\* exactly one row to the interactions store, whatever tier answered.
C1_ExactlyOneInteraction ==
    \A t \in Threads :
        Responded(t) => Cardinality(InteractionsOf(frame[t].call)) = 1

\* C2: a call with a non-empty string query that meets a configuration error
\* (no OPENAI_API_KEY, or the vector index fails to load) returns a string
\* and has recorded exactly one interaction.
C2_ConfigErrorDegrades ==
    \A t \in Threads :
        (/\ frame[t].pc = "returned"
         /\ frame[t].consulta.type = "str"
         /\ frame[t].consulta.text # <<>>
         /\ ~api_key \/ frame[t].cause = "load_local")
        => /\ frame[t].result # None
           /\ Cardinality(InteractionsOf(frame[t].call)) = 1

\* the number of times a call made the external call `name`
TimesCalled(t, name) ==
    Cardinality({i \in 1..Len(frame[t].external) : frame[t].external[i] = name})

\* C3: no exception of an external call leaves buscar_respuesta, and no
\* external call is made again within one routing call.
C3_NoExceptionPropagates ==
    \A t \in Threads :
        /\ frame[t].pc # "raised"
        /\ TimesCalled(t, "load_local") <= 1
        /\ TimesCalled(t, "invoke") <= 1

\* C4: a call with an empty or non-string query returns None and leaves
\* everything as it was: no interaction row, no order row, no tier evaluated,
\* no external call, chat_histories unchanged even with a session id.
C4_InvalidQueryNoEffects ==
    \A t \in Threads :
        (/\ frame[t].call # 0
         /\ frame[t].consulta.type # "str" \/ frame[t].consulta.text = <<>>)
        => /\ frame[t].pc = "returned"
           /\ frame[t].result = None
           /\ interactions_db = EmptyDb
           /\ orders_db = EmptyDb
           /\ frame[t].visited = <<>>
           /\ frame[t].external = <<>>
           /\ chat_histories = << >>
           /\ objects = <<>>

\* an empty query with a session id has returned
C4_Witness ==
    /\ frame[1].pc = "returned"
    /\ frame[1].consulta = Str(<<>>)
    /\ frame[1].session_id = Session1

\* the query of a call names a product keyword of line 187
NamesProductKeyword(text) ==
    \E keyword \in product_keywords : Contains(Lower(text), keyword)

\* C5: a call whose order was validated against the catalog and that returned
\* has added exactly one orders row, with the product id of the catalog entry,
\* the extracted quantity and status 'procesado'; its confirmation carries the
\* quantity, the catalog name, price * quantity and the id of that row.  A call
\* on any other path has no orders row.
C5_ValidatedOrderRecorded ==
    \A t \in Threads :
        LET f == frame[t]
            mine == OrdersOf(f.call)
        IN  /\ Cardinality(mine) <= 1
            /\ f.producto = 0 => mine = {}
            /\ (f.pc = "returned" /\ f.producto # 0) =>
                 /\ Cardinality(mine) = 1
                 /\ \A i \in mine :
                      LET row == orders_db.rows[i]
                          quantity == ExtractQuantity(f.consulta.text)
                      IN  /\ row.product_id = Catalog[f.producto].id
                          /\ row.quantity = quantity
                          /\ row.status = "procesado"
                          /\ f.result.kind = "Pedido registrado"
                          /\ f.result.quantity = quantity
                          /\ f.result.nombre = Catalog[f.producto].nombre
                          /\ f.result.total = Catalog[f.producto].precio * quantity
                          /\ f.result.order_id = row.order_id

\* an order of two croissants, validated through the index, has returned
C5_Witness ==
    /\ frame[1].pc = "returned"
    /\ frame[1].producto # 0
    /\ frame[1].quantity = [type |-> "int", value |-> 2]
    /\ frame[1].hit_score >= ValidateThreshold
    /\ Len(orders_db.rows) = 1

\* C6: when the order tier's validate_product returns None the call ends in
\* that tier: it returns the apology naming the phrase, adds no orders row and
\* exactly one interaction, and evaluates no later tier and no generation.
C6_NotFoundIsTerminal ==
    \A t \in Threads :
        LET f == frame[t]
        IN  f.tier = "order_not_found" =>
              /\ f.product_name.type = "str"
              /\ f.quantity.type = "int"
              /\ f.producto = 0
              /\ f.visited = <<"order">>
              /\ TimesCalled(t, "invoke") = 0
              /\ TimesCalled(t, "similarity_search") <= 1
              /\ OrdersOf(f.call) = {}
              /\ f.pc \in {"run", "returned", "raised"}
              /\ f.pc = "returned" =>
                   /\ f.result = [kind |-> "No encontramos",
                                  product_name |-> f.product_name]
                   /\ Cardinality(InteractionsOf(f.call)) = 1

\* an order of a product the catalog and the index do not know has returned
C6_Witness ==
    /\ frame[1].pc = "returned"
    /\ frame[1].tier = "order_not_found"
    /\ frame[1].quantity.value = 2
    /\ TimesCalled(1, "similarity_search") = 1

\* C7: a call whose query holds an order keyword and a product keyword and
\* that returns a response is answered by the order tier, whatever quantity
\* was extracted, the digit 0 included.
C7_OrderTierResolves ==
    \A t \in Threads :
        (/\ Responded(t)
         /\ HasOrderKeyword(frame[t].consulta.text)
         /\ NamesProductKeyword(frame[t].consulta.text))
        => frame[t].tier \in {"order", "order_not_found"}

\* C8: a call whose query holds an order keyword but leaves no product phrase
\* is not ended by the order tier: it places no order, returns no apology and
\* goes on to the product tier, then the FAQ tier, then generation, in that
\* order, answered by the first of them that matches.
C8_NullPhraseFallsThrough ==
    \A t \in Threads :
        LET f == frame[t]
            order == <<"order", "product", "faq", "generation">>
        IN  (/\ f.visited # <<>>
             /\ f.product_name = None
             /\ HasOrderKeyword(f.consulta.text)
             /\ Len(ExtractPhrase(f.consulta.text)) < 3)
            => /\ f.tier \notin {"order", "order_not_found"}
               /\ OrdersOf(f.call) = {}
               /\ f.visited = SubSeq(order, 1, Len(f.visited))
               /\ f.pc = "product_tier" \/ Len(f.visited) >= 2
               /\ f.tier = "product" => Len(f.visited) = 2
               /\ f.tier = "faq" => Len(f.visited) = 3
               /\ f.tier \in {"generation_session", "generation_plain", "degraded"}
                    => Len(f.visited) = 4
               /\ f.pc = "returned" =>
                    /\ f.tier # ""
                    /\ f.result.kind \notin {"Pedido registrado", "No encontramos"}

\* "Quiero 2" with a session id was answered by the generation
C8_Witness ==
    /\ frame[1].pc = "returned"
    /\ frame[1].quantity = [type |-> "int", value |-> 2]
    /\ frame[1].product_name = None
    /\ frame[1].tier = "generation_session"
    /\ frame[1].visited = <<"order", "product", "faq", "generation">>

\* the store the pending insert of thread t writes to
PendingStore(t) ==
    IF NextOp(t) = "add_order" THEN orders_db ELSE interactions_db

\* C9: in both stores the ids are unique and strictly increasing in insertion
\* order, inserts of concurrent calls never share an id, and an insert is
\* atomic: its row is invisible until committed, then present with the id
\* returned to its call.
C9_IdsUniqueIncreasing ==
    /\ \A i, j \in 1..Len(orders_db.rows) :
          i < j => orders_db.rows[i].order_id < orders_db.rows[j].order_id
    /\ \A i, j \in 1..Len(interactions_db.rows) :
          i < j => interactions_db.rows[i].interaction_id
                     < interactions_db.rows[j].interaction_id
    /\ \A t \in Threads :
          LET f == frame[t]
          IN  /\ f.order_id # 0 =>
                   \E i \in OrdersOf(f.call) : orders_db.rows[i].order_id = f.order_id
              /\ \A k \in 1..Len(f.interaction_ids) :
                   \E i \in InteractionsOf(f.call) :
                      interactions_db.rows[i].interaction_id = f.interaction_ids[k]
              /\ f.pending # 0 =>
                   /\ f.pending > PendingStore(t).seq
                   /\ \A u \in Threads \ {t} :
                        frame[u].pending # 0 => NextOp(u) # NextOp(t)

\* two calls in flight at once have each committed an interaction, and one
\* of them has also committed an order
C9_Witness ==
    /\ frame[1].pc = "run"
    /\ frame[2].pc = "run"
    /\ Len(interactions_db.rows) = 2
    /\ interactions_db.rows[1].call # interactions_db.rows[2].call
    /\ Len(orders_db.rows) = 1
    /\ orders_db.rows[1].call # frame[1].call

\* no call is in flight
Quiescent == \A t \in Threads : frame[t].pc \in {"idle", "returned", "raised"}

\* C10: concurrent calls with the same session id leave one log for the
\* session holding every message of every call that responded, each user
\* message directly followed by the agent message of the same call.
C10_HistorySerialized ==
    Quiescent =>
        /\ Len(objects) = Cardinality(DOMAIN chat_histories)
        /\ \A t \in Threads :
              Responded(t) =>
                 /\ frame[t].session_id \in DOMAIN chat_histories
                 /\ LET log == objects[chat_histories[frame[t].session_id]]
                    IN  \E i \in 1..Len(log) :
                           /\ log[i].type = "human"
                           /\ log[i].call = frame[t].call
        /\ \A o \in 1..Len(objects) :
              \A i \in 1..Len(objects[o]) :
                 objects[o][i].type = "human" =>
                    /\ i < Len(objects[o])
                    /\ objects[o][i + 1].type = "ai"
                    /\ objects[o][i + 1].call = objects[o][i].call

\* the line the claim gives a message: "User: ..." for a user message,
\* "AI: ..." for an agent message
RoleLine(m) ==
    (IF m.type = "human" THEN <<"U", "s", "e", "r", ":", " ">>
     ELSE <<"A", "I", ":", " ">>) \o ContentChars(m.content)

\* C11: the context the generation with a session is given renders the
\* session's messages in log order, each exactly once as a line of its own
\* role, and is the last 1000 characters of the joined lines, never longer.
C11_ContextAlternates ==
    \A t \in Threads :
        frame[t].context # None =>
           LET messages == frame[t].context.messages
               lines == [i \in 1..Len(messages) |-> RoleLine(messages[i])]
           IN  /\ frame[t].context.text = Suffix(JoinLines(lines), 1000)
               /\ Len(frame[t].context.text) <= 1000

\* the text holds one of the keywords quiero, pedir, comprar, dame, necesito
\* as a whole word: not next to a letter or digit on either side
HasIntentWord(text) ==
    LET low == Lower(text)
    IN  \E keyword \in order_keywords :
          \E i \in 1..Len(low) :
             /\ i + Len(keyword) - 1 <= Len(low)
             /\ SubSeq(low, i, i + Len(keyword) - 1) = keyword
             /\ i = 1 \/ ~IsWordChar(low[i - 1])
             /\ i + Len(keyword) > Len(low) \/ ~IsWordChar(low[i + Len(keyword)])

\* C12: for a query with no intent keyword as a whole word extract_order_info
\* returns (None, None), and the call never reaches validate_product, adds
\* no orders row and returns neither a confirmation nor an order apology.
C12_IntentIsHardGate ==
    \A t \in Threads :
        LET f == frame[t]
        IN  f.visited # <<>> =>
              \/ /\ f.product_name = None
                 /\ f.quantity = None
                 /\ f.producto = 0
                 /\ f.tier \notin {"order", "order_not_found"}
                 /\ ~(f.pc = "raised" /\ f.visited = <<"order">>)
                 /\ f.pc # "order_tier" => Len(f.visited) >= 2 \/ f.pc = "product_tier"
                 /\ OrdersOf(f.call) = {}
                 /\ Responded(t) =>
                      f.result.kind \notin {"Pedido registrado", "No encontramos"}
              \/ HasIntentWord(f.consulta.text)

\* "requiero 2 croissants" was answered by the product tier
C12_Witness ==
    /\ frame[1].pc = "returned"
    /\ frame[1].tier = "product"
    /\ frame[1].visited = <<"order", "product">>
    /\ Len(frame[1].consulta.text) > 8
    /\ SubSeq(frame[1].consulta.text, 1, 8) = <<"r", "e", "q", "u", "i", "e", "r", "o">>

\* low[i..j] is a word of low: a longest run of characters without a space
IsWordAt(low, i, j) ==
    /\ \A k \in i..j : low[k] # " "
    /\ i = 1 \/ low[i - 1] = " "
    /\ j = Len(low) \/ low[j + 1] = " "

\* the quantity the claim gives a query: that of its first word that is a
\* number word or a digit string, 1 when it has none
StatedQuantity(text) ==
    LET low == Lower(text)
        IsQuantity(w) == w \in num_map_keys \/ IsDigit(w)
        starts == {i \in 1..Len(low) :
                      \E j \in i..Len(low) :
                         IsWordAt(low, i, j) /\ IsQuantity(SubSeq(low, i, j))}
    IN  IF starts = {} THEN 1
        ELSE LET i == CHOOSE k \in starts : \A m \in starts : k <= m
                 j == CHOOSE k \in i..Len(low) : IsWordAt(low, i, k)
                 w == SubSeq(low, i, j)
             IN  IF w \in num_map_keys THEN num_map(w) ELSE ParseInt(w)

\* C13: every row of the orders store has a quantity of at least 1: 1 when
\* the query has no quantity token, the value of its number word, or the
\* integer of its first digit token; a digit token 0 never produces an order.
C13_QuantityPositive ==
    \A i \in 1..Len(orders_db.rows) :
        LET row == orders_db.rows[i]
        IN  /\ row.quantity >= 1
            /\ \A t \in Threads :
                 frame[t].call = row.call =>
                    /\ row.quantity = StatedQuantity(frame[t].consulta.text)
                    /\ frame[t].quantity.value # 0

\* "Quiero croissants", without a quantity token, has placed its order
C13_Witness ==
    /\ frame[1].pc = "returned"
    /\ frame[1].consulta =
          Str(Join(<<<<"Q", "u", "i", "e", "r", "o">>,
                     <<"c", "r", "o", "i", "s", "s", "a", "n", "t", "s">>>>))
    /\ Len(orders_db.rows) = 1
    /\ orders_db.rows[1].quantity = 1

\* C14: a product-tier response is the text of a hit of score at least 0.8,
\* a FAQ-tier response the answer of a hit of score at least 0.85, and an
\* order resolved through the index rests on a hit of score at least 0.7;
\* a tier whose search gives no such hit goes on to the next tier.
C14_ThresholdsEnforced ==
    \A t \in Threads :
        LET f == frame[t]
        IN  /\ f.tier = "product" =>
                 /\ f.hit_score >= 80
                 /\ f.response.kind = "page_content"
            /\ f.tier = "faq" =>
                 /\ f.hit_score >= 85
                 /\ f.response.kind = "faq_answer"
            /\ f.tier = "order" => f.hit_score = 0 \/ f.hit_score >= 70
            /\ f.tier \notin {"product", "faq", "order"} => f.hit_score = 0
            /\ (Len(f.visited) = 2 /\ f.tier = "" /\ f.pc # "raised")
                 => f.pc = "faq_tier"
            /\ (Len(f.visited) = 3 /\ f.tier = "" /\ f.pc # "raised")
                 => f.pc = "generation"

\* the product tier answered from a hit of score 0.82, which the FAQ tier
\* would have turned down
C14_Witness ==
    /\ frame[1].pc = "returned"
    /\ frame[1].tier = "product"
    /\ frame[1].hit_score = 82
    /\ TimesCalled(1, "similarity_search") = 1

\* the positions of the messages of a call in a history object
MessagesOf(call, o) == {i \in 1..Len(objects[o]) : objects[o][i].call = call}

\* C15: a call that was given a session id and returned a response has put
\* exactly two entries in that session's log, its query as a user message
\* and later the response it returned as an agent message, and none in any
\* other log; they stay there afterwards.  A call without a session id puts
\* no entry anywhere.
C15_TwoEntriesPerSessionCall ==
    \A t \in Threads :
        LET f == frame[t]
        IN  /\ (f.call # 0 /\ ~Truthy(f.session_id)) =>
                 /\ f.history = 0
                 /\ \A o \in 1..Len(objects) : MessagesOf(f.call, o) = {}
            /\ (Responded(t) /\ Truthy(f.session_id)) =>
                 /\ f.session_id \in DOMAIN chat_histories
                 /\ LET own == chat_histories[f.session_id]
                        log == objects[own]
                    IN  /\ \E i, j \in MessagesOf(f.call, own) :
                              /\ i < j
                              /\ MessagesOf(f.call, own) = {i, j}
                              /\ log[i].type = "human"
                              /\ log[i].content = f.consulta
                              /\ log[j].type = "ai"
                              /\ log[j].content = f.result
                        /\ \A o \in 1..Len(objects) \ {own} :
                              MessagesOf(f.call, o) = {}

============================================================================
